---- MODULE Spec2Model ----
(***************************************************************************)
(* Model of the essentia_browser_plugin core: the markup parser            *)
(* (src/src/parser.rs), the element / render tree types (src/src/types.rs) *)
(* and the render engine (src/src/renderer.rs).                            *)
(*                                                                         *)
(* Strings are sequences of one-character strings, so that trim, find,     *)
(* starts_with and slicing are computed as the code computes them.         *)
(* Option<T> is a sequence of length 0 (None) or 1 (Some).                 *)
(* f32 values are integers: every value the model reaches is a small       *)
(* integer, which f32 represents and adds exactly.                         *)
(***************************************************************************)
EXTENDS Integers, Sequences, FiniteSets, TLC

VARIABLES
    pieces,           \* the pieces of markup text a caller concatenates into html
    results,          \* per doctype prefix: the call parse(prefix + html, url) and its outcome
    stack,            \* Elements under construction by the fluent builder calls
    stylesheet,       \* the StyleSheet (ordered CssRule list) the caller holds
    document,         \* Option<Document>: the Document the caller holds
    viewport_width,   \* RenderEngine.viewport_width
    viewport_height,  \* RenderEngine.viewport_height
    tree,             \* Option<RenderTree>: the render tree the caller holds
    opLog,            \* the last MaxLog render-engine calls, oldest first
    tabs,             \* BrowserPlugin.tabs
    active_tab,       \* BrowserPlugin.active_tab (0-based index into tabs)
    next_tab_id,      \* BrowserPlugin.next_tab_id
    issued,           \* every tab id BrowserPlugin::new_tab has returned so far
    pluginCall,       \* the last BrowserPlugin call: its arguments, result and state writes
    config,           \* BrowserFlexForgeIntegration.config (the value behind the mutex)
    metrics,          \* BrowserFlexForgeIntegration.metrics
    ff_tabs,          \* BrowserFlexForgeIntegration.tabs: the HashMap, a function on the open ids
    active_tab_id,    \* BrowserFlexForgeIntegration.active_tab_id: Option<u64>
    ff_next_tab_id,   \* BrowserFlexForgeIntegration.next_tab_id
    stream_active,    \* BrowserFlexForgeIntegration.stream_active
    stream_id,        \* BrowserFlexForgeIntegration.stream_id: Option<u64>
    next_stream_id,   \* BrowserFlexForgeIntegration.next_stream_id
    devtools_open,    \* BrowserFlexForgeIntegration.devtools_open
    ffCall,           \* the last BrowserFlexForgeIntegration call: arguments, result, state before
    markup,           \* the fragments of the markup text m a caller has typed so far
    parseCall         \* Option: the call parse(declaration + m, url) made on it and its outcome

vars == <<pieces, results, stack, stylesheet, document,
          viewport_width, viewport_height, tree, opLog,
          tabs, active_tab, next_tab_id, issued, pluginCall,
          config, metrics, ff_tabs, active_tab_id, ff_next_tab_id,
          stream_active, stream_id, next_stream_id, devtools_open, ffCall,
          markup, parseCall>>

parserVars == <<pieces, results>>
treeVars == <<stack, stylesheet, document>>
renderVars == <<viewport_width, viewport_height, tree, opLog>>
pluginVars == <<tabs, active_tab, next_tab_id, issued, pluginCall>>
ffVars == <<config, metrics, ff_tabs, active_tab_id, ff_next_tab_id,
            stream_active, stream_id, next_stream_id, devtools_open, ffCall>>
markupVars == <<markup, parseCall>>
hostVars == <<pluginVars, ffVars, markupVars>>
coreVars == <<parserVars, treeVars, renderVars>>

----------------------------------------------------------------------------
(* Bounds of the model *)

MaxFrags == 4
MaxTitleNodes == 3
MaxNodes == 4
MaxRules == 2
MaxLog == 3
MaxTabIds == 3
MaxFfTabIds == 3
MaxStreamIds == 3
MaxApply == 2
MaxMarkupFrags == 4

----------------------------------------------------------------------------
(* Option, Result and string helpers *)

None == <<>>
Some(v) == <<v>>
IsSome(o) == o # <<>>
Unwrap(o) == o[1]

Ok(v) == [ok |-> TRUE, val |-> v]
Err(kind, msg) == [ok |-> FALSE, kind |-> kind, msg |-> msg]

EmptyStr == <<>>
S_div == <<"d", "i", "v">>
S_p == <<"p">>
S_title == <<"t", "i", "t", "l", "e">>
S_html == <<"h", "t", "m", "l">>
S_Untitled == <<"U", "n", "t", "i", "t", "l", "e", "d">>
S_Hello == <<"H", "e", "l", "l", "o">>
S_Hi == <<"H", "i">>
S_DOCTYPE == <<"<", "!", "D", "O", "C", "T", "Y", "P", "E">>
S_doctype == <<"<", "!", "d", "o", "c", "t", "y", "p", "e">>
S_close_html == <<"<", "/", "h", "t", "m", "l", ">">>
S_DocType == <<"<", "!", "D", "o", "c", "T", "y", "p", "e">>
S_open_p == <<"<", "p", ">">>
S_open_p_attr == <<"<", "p", " ", "a", "=", "b", ">">>
S_close_p == <<"<", "/", "p", ">">>

\* char::is_whitespace, on the characters the model draws
WhiteSpace == {" ", "\n"}

RECURSIVE TrimStart(_)
TrimStart(s) ==
    IF s = <<>> THEN s
    ELSE IF Head(s) \in WhiteSpace THEN TrimStart(Tail(s)) ELSE s

RECURSIVE TrimEnd(_)
TrimEnd(s) ==
    IF s = <<>> THEN s
    ELSE IF s[Len(s)] \in WhiteSpace THEN TrimEnd(SubSeq(s, 1, Len(s) - 1)) ELSE s

\* str::trim
Trim(s) == TrimEnd(TrimStart(s))

\* str::starts_with
StartsWith(s, p) == Len(s) >= Len(p) /\ SubSeq(s, 1, Len(p)) = p

\* str::find(char): Some(0-based index of the first occurrence) or None
Find(s, c) ==
    IF \E i \in 1..Len(s) : s[i] = c
    THEN Some((CHOOSE i \in 1..Len(s) : s[i] = c /\ \A j \in 1..(i - 1) : s[j] # c) - 1)
    ELSE None

\* &s[from..to] and &s[from..], 0-based and half open
Slice(s, from, to) == SubSeq(s, from + 1, to)
SliceFrom(s, from) == SubSeq(s, from + 1, Len(s))

RECURSIVE TakeToken(_)
TakeToken(s) ==
    IF s = <<>> \/ Head(s) \in WhiteSpace THEN <<>>
    ELSE <<Head(s)>> \o TakeToken(Tail(s))

\* s.split_whitespace().next(): the first whitespace-delimited token, if any
\* split_whitespace().next() that yields the whole text after the leading whitespace
SplitWhitespaceNext_WholeContent(s) ==
    IF TrimStart(s) = <<>> THEN None ELSE Some(TrimStart(s))

SplitWhitespaceNext(s) ==
    IF TrimStart(s) = <<>> THEN None ELSE Some(TakeToken(TrimStart(s)))

UnwrapOr(o, d) == IF IsSome(o) THEN Unwrap(o) ELSE d

----------------------------------------------------------------------------
(* types.rs: Element *)

ElementNew(tag) ==
    [tag |-> tag, attributes |-> <<>>, children |-> <<>>, text_content |-> None]

with_child(e, child) == [e EXCEPT !.children = Append(@, child)]

with_text(e, text) == [e EXCEPT !.text_content = Some(text)]

----------------------------------------------------------------------------
(* parser.rs: HtmlParser *)

\* the scan taking an unterminated tag to run to the end of the text
FirstTag_OpenEnded(h) ==
    LET start == Find(h, "<") IN
    IF IsSome(start)
    THEN LET end == Find(SliceFrom(h, Unwrap(start)), ">")
             stop == IF IsSome(end) THEN Unwrap(start) + Unwrap(end) ELSE Len(h)
             tag_content == Slice(h, Unwrap(start) + 1, stop)
         IN Ok(ElementNew(UnwrapOr(SplitWhitespaceNext(tag_content), S_div)))
    ELSE Ok(ElementNew(S_div))

\* the scan keeping what follows the tag as the element's text
FirstTag_WithText(h) ==
    LET start == Find(h, "<") IN
    IF IsSome(start)
    THEN LET end == Find(SliceFrom(h, Unwrap(start)), ">") IN
         IF IsSome(end)
         THEN LET close == Unwrap(start) + Unwrap(end)
                  tag_content == Slice(h, Unwrap(start) + 1, close)
                  tag_name == UnwrapOr(SplitWhitespaceNext(tag_content), S_div)
                  rest == SliceFrom(h, close + 1)
              IN Ok(IF rest = EmptyStr THEN ElementNew(tag_name)
                    ELSE with_text(ElementNew(tag_name), rest))
         ELSE Ok(ElementNew(S_div))
    ELSE Ok(ElementNew(S_div))

\* the scan for the first tag, on trimmed text (parser.rs:38-48)
FirstTag(h) ==
    LET start == Find(h, "<") IN
    IF IsSome(start)
    THEN LET end == Find(SliceFrom(h, Unwrap(start)), ">") IN
         IF IsSome(end)
         THEN LET tag_content == Slice(h, Unwrap(start) + 1, Unwrap(start) + Unwrap(end))
                  tag_name == UnwrapOr(SplitWhitespaceNext(tag_content), S_div)
              IN Ok(ElementNew(tag_name))
         ELSE Ok(ElementNew(S_div))
    ELSE Ok(ElementNew(S_div))

RECURSIVE parse_element(_)
\* parse_element recognising only the upper-case doctype keyword
parse_element_UpperOnly(html0) ==
    LET h == Trim(html0) IN
    IF StartsWith(h, S_DOCTYPE)
    THEN LET pos == Find(h, ">") IN
         IF IsSome(pos)
         THEN parse_element(SliceFrom(h, Unwrap(pos) + 1))
         ELSE FirstTag(h)
    ELSE FirstTag(h)

parse_element(html0) ==
    LET h == Trim(html0) IN
    IF StartsWith(h, S_DOCTYPE) \/ StartsWith(h, S_doctype)
    THEN LET pos == Find(h, ">") IN
         IF IsSome(pos)
         THEN parse_element(SliceFrom(h, Unwrap(pos) + 1))
         ELSE FirstTag(h)
    ELSE FirstTag(h)

RECURSIVE extract_title(_)
RECURSIVE FirstNonEmptyTitle(_)
\* the loop of extract_title falling back to the empty string
FirstNonEmptyTitle_NoFallback(children) ==
    IF children = <<>> THEN EmptyStr
    ELSE LET title == extract_title(Head(children)) IN
         IF title # EmptyStr THEN title ELSE FirstNonEmptyTitle(Tail(children))

\* the loop of extract_title over the children (parser.rs:58-63)
FirstNonEmptyTitle(children) ==
    IF children = <<>> THEN S_Untitled
    ELSE LET title == extract_title(Head(children)) IN
         IF title # EmptyStr THEN title ELSE FirstNonEmptyTitle(Tail(children))

extract_title(root) ==
    IF root.tag = S_title
    THEN UnwrapOr(root.text_content, EmptyStr)
    ELSE FirstNonEmptyTitle(root.children)

\* the Document parse builds from a root (parser.rs:17-23)
DocumentOf(root, u) == [title |-> extract_title(root), root |-> root, url |-> u]

\* parse testing emptiness on the trimmed text
parse_EmptyAfterTrim(h, u) ==
    IF Trim(h) = EmptyStr
    THEN Err("Parse", "Empty HTML")
    ELSE LET root == parse_element(h) IN
         IF root.ok THEN Ok(DocumentOf(root.val, u)) ELSE root

parse(h, u) ==
    IF h = EmptyStr
    THEN Err("Parse", "Empty HTML")
    ELSE LET root == parse_element(h) IN
         IF root.ok THEN Ok(DocumentOf(root.val, u)) ELSE root

----------------------------------------------------------------------------
(* types.rs: ComputedStyle, LayoutBox, RenderNode; renderer.rs: RenderEngine *)

DefaultViewportWidth == 1920
DefaultViewportHeight == 1080
BuildChildStep == 20
BlockGap == 8

\* #[derive(Default)] on Color: every channel 0
ColorDefault == [r |-> 0, g |-> 0, b |-> 0, a |-> 0]

\* #[derive(Default)] on ComputedStyle
ComputedStyleDefault ==
    [display |-> "Block", width |-> None, height |-> None,
     background_color |-> ColorDefault, color |-> ColorDefault]

RECURSIVE build_render_node(_, _, _, _)
\* build_render_node collecting the children in reverse order
build_render_node_Reversed(element, x, y, vw) ==
    [element |-> element,
     computed_style |-> ComputedStyleDefault,
     layout |-> [x |-> x, y |-> y, width |-> vw, height |-> 0],
     children |-> [i \in 1..Len(element.children) |->
                     build_render_node(element.children[Len(element.children) + 1 - i], x,
                                       y + ((i - 1) * BuildChildStep), vw)]]

build_render_node(element, x, y, vw) ==
    [element |-> element,
     computed_style |-> ComputedStyleDefault,
     layout |-> [x |-> x, y |-> y, width |-> vw, height |-> 0],
     children |-> [i \in 1..Len(element.children) |->
                     build_render_node(element.children[i], x,
                                       y + ((i - 1) * BuildChildStep), vw)]]

build_render_tree(doc, vw) == Ok([root |-> build_render_node(doc.root, 0, 0, vw)])

RECURSIVE layout_node(_, _, _, _)
RECURSIVE LayoutChildren(_, _, _, _)
\* the loop of layout_node advancing child_y by the gap alone
LayoutChildren_GapOnly(children, x, child_y, available_width) ==
    IF children = <<>> THEN [nodes |-> <<>>, child_y |-> child_y]
    ELSE LET child == layout_node(Head(children), x, child_y, available_width)
             rest == LayoutChildren(Tail(children), x, child_y + BlockGap,
                                    available_width)
         IN [nodes |-> <<child>> \o rest.nodes, child_y |-> rest.child_y]

\* the loop of layout_node over the children (renderer.rs:58-62): the laid out
\* children and the final child_y
LayoutChildren(children, x, child_y, available_width) ==
    IF children = <<>> THEN [nodes |-> <<>>, child_y |-> child_y]
    ELSE LET child == layout_node(Head(children), x, child_y, available_width)
             rest == LayoutChildren(Tail(children), x,
                                    child_y + child.layout.height + BlockGap,
                                    available_width)
         IN [nodes |-> <<child>> \o rest.nodes, child_y |-> rest.child_y]

\* layout_node adding the new extent to the height the node already has
layout_node_Accumulating(node, x, y, available_width) ==
    LET done == LayoutChildren(node.children, x, y, available_width) IN
    [node EXCEPT !.layout = [x |-> x, y |-> y, width |-> available_width,
                             height |-> node.layout.height + (done.child_y - y)],
                 !.children = done.nodes]

\* layout_node leaving the width the node already has
layout_node_StaleWidth(node, x, y, available_width) ==
    LET done == LayoutChildren(node.children, x, y, available_width) IN
    [node EXCEPT !.layout = [x |-> x, y |-> y, width |-> node.layout.width,
                             height |-> done.child_y - y],
                 !.children = done.nodes]

layout_node(node, x, y, available_width) ==
    LET done == LayoutChildren(node.children, x, y, available_width) IN
    [node EXCEPT !.layout = [x |-> x, y |-> y, width |-> available_width,
                             height |-> done.child_y - y],
                 !.children = done.nodes]

layout(t, vw) == [t EXCEPT !.root = layout_node(t.root, 0, 0, vw)]

----------------------------------------------------------------------------
(* Inputs the callers draw from *)

BlankUrl == "about:blank"
Urls == {BlankUrl, "https://example.com"}

Frags == {<<"<">>, <<">">>, <<" ">>, S_html, S_close_html, S_DOCTYPE, S_doctype}

PrefixKinds == {"none", "upper", "lower"}

Prefix(k) ==
    CASE k = "none" -> EmptyStr
      [] k = "upper" -> S_DOCTYPE \o <<" ">> \o S_html \o <<">">>
      [] k = "lower" -> S_doctype \o <<" ">> \o S_html \o <<">">>

TitleTags == {S_div, S_title}
TitleTexts == {EmptyStr, S_Hello, S_Hi}
RenderTags == {S_div, S_p}

Viewports == {<<800, 600>>, <<400, 300>>}

RECURSIVE Flatten(_)
Flatten(ps) == IF ps = <<>> THEN <<>> ELSE Head(ps) \o Flatten(Tail(ps))

\* the markup text the caller has assembled
Html == Flatten(pieces)

\* markup fragments: single characters, whole tags with and without an
\* attribute, text, and a doctype keyword with no closing '>'
MarkupFrags ==
    {<<"<">>, <<">">>, <<" ">>, S_p, S_open_p, S_open_p_attr, S_close_p, S_Hi, S_DOCTYPE}

MarkupText == Flatten(markup)

\* the casings of the doctype keyword a declaration is written in
Casings == {"none", "DOCTYPE", "doctype", "DocType"}

Declaration(d) ==
    CASE d = "none" -> EmptyStr
      [] d = "DOCTYPE" -> S_DOCTYPE \o <<" ">> \o S_html \o <<">">>
      [] d = "doctype" -> S_doctype \o <<" ">> \o S_html \o <<">">>
      [] d = "DocType" -> S_DocType \o <<" ">> \o S_html \o <<">">>

RECURSIVE NodeCount(_)
RECURSIVE NodeCountAll(_)
NodeCountAll(es) == IF es = <<>> THEN 0 ELSE NodeCount(Head(es)) + NodeCountAll(Tail(es))
NodeCount(e) == 1 + NodeCountAll(e.children)

Logged(op) ==
    LET l == Append(opLog, op) IN
    IF Len(l) > MaxLog THEN Tail(l) ELSE l

----------------------------------------------------------------------------
(* plugin.rs: BrowserPlugin. A plugin value is [tabs, active_tab, next_tab_id]; *)
(* every method yields the plugin after the call, the value returned and the    *)
(* navigation_state assignments it made, in order.                              *)

S_body == <<"b", "o", "d", "y">>

\* the markup navigate parses: "<!DOCTYPE html><html><body></body></html>"
NavigateHtml ==
    S_DOCTYPE \o <<" ">> \o S_html \o <<">">>
        \o <<"<">> \o S_html \o <<">">>
        \o <<"<">> \o S_body \o <<">">> \o <<"<", "/">> \o S_body \o <<">">>
        \o S_close_html

BrowserPluginNew == [tabs |-> <<>>, active_tab |-> 0, next_tab_id |-> 1]

Plugin == [tabs |-> tabs, active_tab |-> active_tab, next_tab_id |-> next_tab_id]

NewBrowserTab(tab_id) ==
    [id |-> tab_id, url |-> BlankUrl, title |-> "New Tab",
     navigation_state |-> "Idle", document |-> None]

\* new_tab numbering the tab by the count of open tabs
new_tab_CountsOpenTabs(p) ==
    LET tab_id == Len(p.tabs) + 1
        pushed == Append(p.tabs, NewBrowserTab(tab_id))
    IN [p |-> [tabs |-> pushed, active_tab |-> Len(pushed) - 1,
               next_tab_id |-> p.next_tab_id + 1],
        ret |-> tab_id,
        writes |-> <<>>]

new_tab(p) ==
    LET tab_id == p.next_tab_id
        pushed == Append(p.tabs, NewBrowserTab(tab_id))
    IN [p |-> [tabs |-> pushed, active_tab |-> Len(pushed) - 1,
               next_tab_id |-> p.next_tab_id + 1],
        ret |-> tab_id,
        writes |-> <<>>]

\* Vec::remove(pos), pos 0-based
Remove(v, pos) == SubSeq(v, 1, pos) \o SubSeq(v, pos + 2, Len(v))

\* iter().position(|t| t.id == tab_id)
Position(v, tab_id) ==
    IF \E i \in 1..Len(v) : v[i].id = tab_id
    THEN Some((CHOOSE i \in 1..Len(v) : v[i].id = tab_id /\ \A j \in 1..(i - 1) : v[j].id # tab_id) - 1)
    ELSE None

\* close_tab removing with Vec::swap_remove: the last tab takes the freed place
close_tab_SwapRemove(p, tab_id) ==
    LET pos == Position(p.tabs, tab_id) IN
    IF IsSome(pos)
    THEN LET at == Unwrap(pos)
             v == p.tabs
             removed == IF at + 1 = Len(v) THEN SubSeq(v, 1, at)
                        ELSE SubSeq(v, 1, at) \o <<v[Len(v)]>> \o SubSeq(v, at + 2, Len(v) - 1)
         IN
         [p |-> [p EXCEPT !.tabs = removed,
                          !.active_tab = IF p.active_tab >= Len(removed) /\ removed # <<>>
                                         THEN Len(removed) - 1 ELSE @],
          ret |-> TRUE,
          writes |-> <<>>]
    ELSE [p |-> p, ret |-> FALSE, writes |-> <<>>]

\* close_tab that leaves active_tab where it was
close_tab_KeepsIndex(p, tab_id) ==
    LET pos == Position(p.tabs, tab_id) IN
    IF IsSome(pos)
    THEN [p |-> [p EXCEPT !.tabs = Remove(p.tabs, Unwrap(pos))], ret |-> TRUE, writes |-> <<>>]
    ELSE [p |-> p, ret |-> FALSE, writes |-> <<>>]

close_tab(p, tab_id) ==
    LET pos == Position(p.tabs, tab_id) IN
    IF IsSome(pos)
    THEN LET removed == Remove(p.tabs, Unwrap(pos)) IN
         [p |-> [p EXCEPT !.tabs = removed,
                          !.active_tab = IF p.active_tab >= Len(removed) /\ removed # <<>>
                                         THEN Len(removed) - 1 ELSE @],
          ret |-> TRUE,
          writes |-> <<>>]
    ELSE [p |-> p, ret |-> FALSE, writes |-> <<>>]

\* navigate storing the document without the url
NavigateWith_KeepsUrl(p, u, parsed) ==
    LET p1 == IF p.tabs = <<>> THEN new_tab(p).p ELSE p
        i == p1.active_tab + 1
    IN IF i > Len(p1.tabs)
       THEN [p |-> p1, ret |-> Err("panic", "index out of bounds"), writes |-> <<>>]
       ELSE LET loading == [p1 EXCEPT !.tabs[i].navigation_state = "Loading"]
                w1 == <<[id |-> p1.tabs[i].id,
                         from |-> p1.tabs[i].navigation_state, to |-> "Loading"]>>
            IN IF ~parsed.ok
               THEN [p |-> loading, ret |-> parsed, writes |-> w1]
               ELSE [p |-> [loading EXCEPT !.tabs[i].document = Some(parsed.val),
                                           !.tabs[i].navigation_state = "Loaded"],
                     ret |-> Ok(<<>>),
                     writes |-> w1 \o <<[id |-> p1.tabs[i].id,
                                         from |-> "Loading", to |-> "Loaded"]>>]

\* navigate that never marks the tab Loading
NavigateWith_SkipsLoading(p, u, parsed) ==
    LET p1 == IF p.tabs = <<>> THEN new_tab(p).p ELSE p
        i == p1.active_tab + 1
    IN IF i > Len(p1.tabs)
       THEN [p |-> p1, ret |-> Err("panic", "index out of bounds"), writes |-> <<>>]
       ELSE IF ~parsed.ok
            THEN [p |-> [p1 EXCEPT !.tabs[i].url = u], ret |-> parsed, writes |-> <<>>]
            ELSE [p |-> [p1 EXCEPT !.tabs[i].url = u,
                                   !.tabs[i].document = Some(parsed.val),
                                   !.tabs[i].navigation_state = "Loaded"],
                  ret |-> Ok(<<>>),
                  writes |-> <<[id |-> p1.tabs[i].id,
                                from |-> p1.tabs[i].navigation_state, to |-> "Loaded"]>>]

\* navigate (plugin.rs:73-91), given what HtmlParser::parse returned at line 85
\* navigate marking the tab Loaded without storing the Document
NavigateWith_DropsDocument(p, u, parsed) ==
    LET p1 == IF p.tabs = <<>> THEN new_tab(p).p ELSE p
        i == p1.active_tab + 1
    IN IF i > Len(p1.tabs)
       THEN [p |-> p1, ret |-> Err("panic", "index out of bounds"), writes |-> <<>>]
       ELSE LET loading == [p1 EXCEPT !.tabs[i].url = u,
                                      !.tabs[i].navigation_state = "Loading"]
                w1 == <<[id |-> p1.tabs[i].id, from |-> p1.tabs[i].navigation_state,
                         to |-> "Loading"]>>
            IN IF ~parsed.ok THEN [p |-> loading, ret |-> parsed, writes |-> w1]
               ELSE [p |-> [loading EXCEPT !.tabs[i].navigation_state = "Loaded"],
                     ret |-> Ok(<<>>),
                     writes |-> w1 \o <<[id |-> p1.tabs[i].id, from |-> "Loading",
                                         to |-> "Loaded"]>>]

NavigateWith(p, u, parsed) ==
    LET p1 == IF p.tabs = <<>> THEN new_tab(p).p ELSE p
        i == p1.active_tab + 1
    IN IF i > Len(p1.tabs)
       THEN [p |-> p1, ret |-> Err("panic", "index out of bounds"), writes |-> <<>>]
       ELSE LET loading == [p1 EXCEPT !.tabs[i].url = u,
                                      !.tabs[i].navigation_state = "Loading"]
                w1 == <<[id |-> p1.tabs[i].id,
                         from |-> p1.tabs[i].navigation_state, to |-> "Loading"]>>
            IN IF ~parsed.ok
               THEN [p |-> loading, ret |-> parsed, writes |-> w1]
               ELSE [p |-> [loading EXCEPT !.tabs[i].document = Some(parsed.val),
                                           !.tabs[i].navigation_state = "Loaded"],
                     ret |-> Ok(<<>>),
                     writes |-> w1 \o <<[id |-> p1.tabs[i].id,
                                         from |-> "Loading", to |-> "Loaded"]>>]

navigate(p, u) == NavigateWith(p, u, parse(NavigateHtml, u))

\* BrowserPlugin::active_tab(): self.tabs.get(self.active_tab)
active_tab_get(p) ==
    IF p.active_tab < Len(p.tabs) THEN Some(p.tabs[p.active_tab + 1]) ELSE None

----------------------------------------------------------------------------
(* flexforge.rs: BrowserFlexForgeIntegration. An integration value is the      *)
(* record of its fields; every method yields the integration after the call    *)
(* and the value returned. The mutexes are never shared between threads and    *)
(* never poisoned, so every lock() is Ok.                                      *)

DefaultMaxTabs == 50
DefaultCacheSizeMb == 256
DefaultZoom == 100
DefaultZoomLevel == 100
ZoomMin == 25
ZoomMax == 500
RenderFps == 60
U32MaxDigits == 10

S_true == <<"t", "r", "u", "e">>
S_standard == <<"s", "t", "a", "n", "d", "a", "r", "d">>
S_user_agent ==
    <<"E", "s", "s", "e", "n", "t", "i", "a", "B", "r", "o", "w", "s", "e", "r",
      "/", "1", ".", "0", " ", "(", "F", "l", "e", "x", "F", "o", "r", "g", "e", ")">>

\* BrowserFlexForgeConfig::default()
BrowserFlexForgeConfigDefault ==
    [enable_javascript |-> TRUE, enable_cookies |-> TRUE, privacy_mode |-> S_standard,
     block_trackers |-> TRUE, https_only |-> FALSE,
     max_tabs |-> DefaultMaxTabs, cache_size_mb |-> DefaultCacheSizeMb,
     preload_links |-> TRUE, hardware_acceleration |-> TRUE,
     user_agent |-> S_user_agent, default_zoom |-> DefaultZoom, dark_mode |-> FALSE,
     ai_content_summary |-> TRUE, ai_translation |-> FALSE, ai_reading_mode |-> FALSE]

\* BrowserTab::default() of flexforge.rs
FfBrowserTabDefault ==
    [id |-> 0, url |-> BlankUrl, title |-> "New Tab", favicon |-> None,
     loading |-> FALSE, can_go_back |-> FALSE, can_go_forward |-> FALSE,
     zoom_level |-> DefaultZoomLevel, pinned |-> FALSE]

\* BrowserMetrics::default()
BrowserMetricsDefault ==
    [open_tabs |-> 0, memory_usage_mb |-> 0, network_requests |-> 0,
     blocked_trackers |-> 0, render_fps |-> 0, page_load_ms |-> 0]

\* BrowserFlexForgeIntegration::new()
BrowserFlexForgeIntegrationNew ==
    [config |-> BrowserFlexForgeConfigDefault,
     metrics |-> BrowserMetricsDefault,
     tabs |-> [id \in {1} |-> [FfBrowserTabDefault EXCEPT !.id = 1]],
     active_tab_id |-> Some(1),
     next_tab_id |-> 2,
     stream_active |-> FALSE,
     stream_id |-> None,
     next_stream_id |-> 1,
     devtools_open |-> FALSE]

Integration ==
    [config |-> config, metrics |-> metrics, tabs |-> ff_tabs,
     active_tab_id |-> active_tab_id, next_tab_id |-> ff_next_tab_id,
     stream_active |-> stream_active, stream_id |-> stream_id,
     next_stream_id |-> next_stream_id, devtools_open |-> devtools_open]

\* HashMap::insert and HashMap::remove
MapInsert(m, k, v) == [x \in DOMAIN m \cup {k} |-> IF x = k THEN v ELSE m[x]]
MapRemove(m, k) == [x \in DOMAIN m \ {k} |-> m[x]]

\* u64::wrapping_add(1); the id counters stay below MaxFfTabIds + 1 and
\* MaxStreamIds + 1, so the wrap at 2^64 is never taken
WrappingInc(n) == n + 1

update_tab_metrics(ff) == [ff EXCEPT !.metrics.open_tabs = Cardinality(DOMAIN ff.tabs)]

ff_create_tab(ff, u) ==
    LET tab_id == ff.next_tab_id
        tab == [FfBrowserTabDefault EXCEPT !.id = tab_id,
                                           !.url = UnwrapOr(u, BlankUrl),
                                           !.loading = IsSome(u)]
    IN [ff |-> update_tab_metrics(
                  [ff EXCEPT !.next_tab_id = WrappingInc(ff.next_tab_id),
                             !.tabs = MapInsert(ff.tabs, tab_id, tab),
                             !.active_tab_id = Some(tab_id)]),
        ret |-> tab_id]

\* tabs.keys().next().copied(): the iteration order of a HashMap is
\* unspecified, so any key may come first; None for an empty map
FirstKey(m) == IF DOMAIN m = {} THEN {None} ELSE {Some(k) : k \in DOMAIN m}

\* close_tab without the guard on the last tab
ff_close_tab_ClosesLast(ff, tab_id) ==
    LET removed == MapRemove(ff.tabs, tab_id) IN
    IF ff.active_tab_id = Some(tab_id)
    THEN {[ff |-> update_tab_metrics([ff EXCEPT !.tabs = removed, !.active_tab_id = a]),
           ret |-> Ok(<<>>)] : a \in FirstKey(removed)}
    ELSE {[ff |-> update_tab_metrics([ff EXCEPT !.tabs = removed]), ret |-> Ok(<<>>)]}

\* close_tab that leaves active_tab_id as it was
ff_close_tab_KeepsActive(ff, tab_id) ==
    IF Cardinality(DOMAIN ff.tabs) <= 1
    THEN {[ff |-> ff, ret |-> Err("String", "Cannot close last tab")]}
    ELSE {[ff |-> update_tab_metrics([ff EXCEPT !.tabs = MapRemove(ff.tabs, tab_id)]),
           ret |-> Ok(<<>>)]}

\* close_tab: the set of outcomes, one for each key tabs.keys().next() may yield
ff_close_tab(ff, tab_id) ==
    IF Cardinality(DOMAIN ff.tabs) <= 1
    THEN {[ff |-> ff, ret |-> Err("String", "Cannot close last tab")]}
    ELSE LET removed == MapRemove(ff.tabs, tab_id) IN
         IF ff.active_tab_id = Some(tab_id)
         THEN {[ff |-> update_tab_metrics([ff EXCEPT !.tabs = removed,
                                                     !.active_tab_id = a]),
                ret |-> Ok(<<>>)] : a \in FirstKey(removed)}
         ELSE {[ff |-> update_tab_metrics([ff EXCEPT !.tabs = removed]),
                ret |-> Ok(<<>>)]}

\* navigate that marks every open tab
ff_navigate_EveryTab(ff, u) ==
    [ff |-> [ff EXCEPT !.tabs = [k \in DOMAIN ff.tabs |->
                                   [ff.tabs[k] EXCEPT !.url = u, !.loading = TRUE,
                                                      !.can_go_back = TRUE]]],
     ret |-> Ok(<<>>)]

ff_navigate(ff, u) ==
    IF ff.active_tab_id = None
    THEN [ff |-> ff, ret |-> Err("String", "No active tab")]
    ELSE LET tab_id == Unwrap(ff.active_tab_id) IN
         IF tab_id \in DOMAIN ff.tabs
         THEN [ff |-> [ff EXCEPT !.tabs[tab_id].url = u,
                                 !.tabs[tab_id].loading = TRUE,
                                 !.tabs[tab_id].can_go_back = TRUE],
               ret |-> Ok(<<>>)]
         ELSE [ff |-> ff, ret |-> Ok(<<>>)]

next_stream(ff) ==
    [ff |-> [ff EXCEPT !.next_stream_id = WrappingInc(ff.next_stream_id)],
     ret |-> ff.next_stream_id]

is_streaming(ff) == ff.stream_active

start_stream(ff) ==
    IF ff.stream_active
    THEN [ff |-> ff, ret |-> Err("String", "Stream already active")]
    ELSE LET n == next_stream(ff) IN
         [ff |-> [n.ff EXCEPT !.stream_id = Some(n.ret), !.stream_active = TRUE],
          ret |-> Ok(n.ret)]

\* stop_stream that forgets the id but leaves the stream flagged active
stop_stream_KeepsActive(ff, id) ==
    IF ~ff.stream_active
    THEN [ff |-> ff, ret |-> Err("String", "No active stream")]
    ELSE IF ff.stream_id # Some(id)
         THEN [ff |-> ff, ret |-> Err("String", "Invalid stream ID")]
         ELSE [ff |-> [ff EXCEPT !.stream_id = None], ret |-> Ok(<<>>)]

stop_stream(ff, id) ==
    IF ~ff.stream_active
    THEN [ff |-> ff, ret |-> Err("String", "No active stream")]
    ELSE IF ff.stream_id # Some(id)
         THEN [ff |-> ff, ret |-> Err("String", "Invalid stream ID")]
         ELSE [ff |-> [ff EXCEPT !.stream_active = FALSE, !.stream_id = None],
               ret |-> Ok(<<>>)]

render_frame(ff, id) ==
    IF ~ff.stream_active \/ ff.stream_id # Some(id)
    THEN [ff |-> ff, ret |-> FALSE]
    ELSE [ff |-> [ff EXCEPT !.metrics.render_fps = RenderFps], ret |-> TRUE]

\* on_panel_activate replacing a running stream by a new one
on_panel_activate_NewStream(ff) ==
    LET idle == IF ff.stream_active /\ IsSome(ff.stream_id)
                THEN stop_stream(ff, Unwrap(ff.stream_id)).ff ELSE ff
    IN [ff |-> start_stream(idle).ff, ret |-> <<>>]

\* the Result of start_stream / stop_stream is dropped (let _ = ..)
on_panel_activate(ff) ==
    IF ~ff.stream_active
    THEN [ff |-> start_stream(ff).ff, ret |-> <<>>]
    ELSE [ff |-> ff, ret |-> <<>>]

on_panel_deactivate(ff) ==
    IF IsSome(ff.stream_id)
    THEN [ff |-> stop_stream(ff, Unwrap(ff.stream_id)).ff, ret |-> <<>>]
    ELSE [ff |-> ff, ret |-> <<>>]

Digits == <<"0", "1", "2", "3", "4", "5", "6", "7", "8", "9">>
IsDigit(c) == \E i \in 1..Len(Digits) : Digits[i] = c
DigitValue(c) == (CHOOSE i \in 1..Len(Digits) : Digits[i] = c) - 1

RECURSIVE DecimalValue(_, _)
DecimalValue(s, acc) ==
    IF s = <<>> THEN acc ELSE DecimalValue(Tail(s), (acc * 10) + DigitValue(Head(s)))

RECURSIVE StripZeros(_)
StripZeros(s) == IF s # <<>> /\ Head(s) = "0" THEN StripZeros(Tail(s)) ELSE s

\* str::parse::<u32>(): an optional '+', then one or more decimal digits; the
\* texts the model draws stay below ten significant digits
ParseU32(value) ==
    LET body == IF value # <<>> /\ Head(value) = "+" THEN Tail(value) ELSE value IN
    IF body = <<>> \/ \E i \in 1..Len(body) : ~IsDigit(body[i])
    THEN Err("ParseIntError", "Invalid number")
    ELSE IF Len(StripZeros(body)) >= U32MaxDigits
         THEN Err("ParseIntError", "Invalid number")
         ELSE Ok(DecimalValue(body, 0))

set_config(ff, c) == [ff EXCEPT !.config = c]

\* the match with a default_zoom arm that does not check the range
ConfigEdit_AnyZoom(c, key, value) ==
    CASE key = "default_zoom" ->
            IF ParseU32(value).ok
            THEN Ok([c EXCEPT !.default_zoom = ParseU32(value).val])
            ELSE Err("String", "Invalid number")
      [] key = "max_tabs" ->
            IF ParseU32(value).ok
            THEN Ok([c EXCEPT !.max_tabs = ParseU32(value).val])
            ELSE Err("String", "Invalid number")
      [] key = "dark_mode" -> Ok([c EXCEPT !.dark_mode = (value = S_true)])
      [] OTHER -> Err("String", <<"Unknown key: ", key>>)

\* the match of on_config_changed (flexforge.rs:401-428): the edited config, or Err
ConfigEdit(c, key, value) ==
    CASE key = "enable_javascript" -> Ok([c EXCEPT !.enable_javascript = (value = S_true)])
      [] key = "enable_cookies" -> Ok([c EXCEPT !.enable_cookies = (value = S_true)])
      [] key = "privacy_mode" -> Ok([c EXCEPT !.privacy_mode = value])
      [] key = "block_trackers" -> Ok([c EXCEPT !.block_trackers = (value = S_true)])
      [] key = "https_only" -> Ok([c EXCEPT !.https_only = (value = S_true)])
      [] key = "max_tabs" ->
            IF ParseU32(value).ok
            THEN Ok([c EXCEPT !.max_tabs = ParseU32(value).val])
            ELSE Err("String", "Invalid number")
      [] key = "cache_size_mb" ->
            IF ParseU32(value).ok
            THEN Ok([c EXCEPT !.cache_size_mb = ParseU32(value).val])
            ELSE Err("String", "Invalid number")
      [] key = "preload_links" -> Ok([c EXCEPT !.preload_links = (value = S_true)])
      [] key = "hardware_acceleration" ->
            Ok([c EXCEPT !.hardware_acceleration = (value = S_true)])
      [] key = "user_agent" -> Ok([c EXCEPT !.user_agent = value])
      [] key = "default_zoom" ->
            IF ~ParseU32(value).ok
            THEN Err("String", "Invalid number")
            ELSE IF ~(ParseU32(value).val \in ZoomMin..ZoomMax)
                 THEN Err("String", "Zoom must be between 25% and 500%")
                 ELSE Ok([c EXCEPT !.default_zoom = ParseU32(value).val])
      [] key = "dark_mode" -> Ok([c EXCEPT !.dark_mode = (value = S_true)])
      [] key = "ai_content_summary" -> Ok([c EXCEPT !.ai_content_summary = (value = S_true)])
      [] key = "ai_translation" -> Ok([c EXCEPT !.ai_translation = (value = S_true)])
      [] key = "ai_reading_mode" -> Ok([c EXCEPT !.ai_reading_mode = (value = S_true)])
      [] OTHER -> Err("String", <<"Unknown key: ", key>>)

on_config_changed(ff, key, value) ==
    LET edited == ConfigEdit(ff.config, key, value) IN
    IF edited.ok
    THEN [ff |-> set_config(ff, edited.val), ret |-> Ok(<<>>)]
    ELSE [ff |-> ff, ret |-> edited]

RECURSIVE apply_config(_, _)
apply_config(ff, entries) ==
    IF entries = <<>> THEN [ff |-> ff, ret |-> Ok(<<>>)]
    ELSE LET one == on_config_changed(ff, Head(entries)[1], Head(entries)[2]) IN
         IF one.ret.ok THEN apply_config(one.ff, Tail(entries)) ELSE one

reset_to_defaults(ff) ==
    [ff |-> set_config(ff, BrowserFlexForgeConfigDefault), ret |-> <<>>]

----------------------------------------------------------------------------
(* Initial state: nothing parsed or built, a RenderEngine::default(), *)
(* a BrowserPlugin::default(), a BrowserFlexForgeIntegration::new()    *)

Init ==
    /\ pieces = <<>>
    /\ results = [k \in PrefixKinds |-> None]
    /\ stack = <<>>
    /\ stylesheet = [rules |-> <<>>]
    /\ document = None
    /\ viewport_width = DefaultViewportWidth
    /\ viewport_height = DefaultViewportHeight
    /\ tree = None
    /\ opLog = <<>>
    /\ tabs = BrowserPluginNew.tabs
    /\ active_tab = BrowserPluginNew.active_tab
    /\ next_tab_id = BrowserPluginNew.next_tab_id
    /\ issued = {}
    /\ pluginCall = [op |-> "new", arg |-> <<>>, before |-> 0, ret |-> <<>>, writes |-> <<>>]
    /\ config = BrowserFlexForgeIntegrationNew.config
    /\ metrics = BrowserFlexForgeIntegrationNew.metrics
    /\ ff_tabs = BrowserFlexForgeIntegrationNew.tabs
    /\ active_tab_id = BrowserFlexForgeIntegrationNew.active_tab_id
    /\ ff_next_tab_id = BrowserFlexForgeIntegrationNew.next_tab_id
    /\ stream_active = BrowserFlexForgeIntegrationNew.stream_active
    /\ stream_id = BrowserFlexForgeIntegrationNew.stream_id
    /\ next_stream_id = BrowserFlexForgeIntegrationNew.next_stream_id
    /\ devtools_open = BrowserFlexForgeIntegrationNew.devtools_open
    /\ ffCall = [op |-> "new", arg |-> <<>>, ret |-> <<>>,
                 before |-> [open_tabs |-> 0, active_tab_id |-> None]]
    /\ markup = <<>>
    /\ parseCall = None

----------------------------------------------------------------------------
(* Parser calls *)

\* the caller extends the markup text it is about to parse
AppendPiece(f) ==
    /\ Len(pieces) < MaxFrags
    /\ \A k \in PrefixKinds : results[k] = None
    /\ pieces' = Append(pieces, f)
    /\ UNCHANGED <<results, treeVars, renderVars, hostVars>>

\* HtmlParser::parse(prefix + html, url)
DoParse(k, u) ==
    /\ results[k] = None
    /\ results' = [results EXCEPT
                     ![k] = Some([input |-> Prefix(k) \o Html, url |-> u,
                                  res |-> parse(Prefix(k) \o Html, u)])]
    /\ UNCHANGED <<pieces, treeVars, renderVars, hostVars>>

\* the caller types one more fragment of the markup m
TypeMarkup(f) ==
    /\ parseCall = None
    /\ Len(markup) < MaxMarkupFrags
    /\ markup' = Append(markup, f)
    /\ UNCHANGED <<parseCall, coreVars, pluginVars, ffVars>>

\* HtmlParser::parse(declaration + m, "about:blank")
ParseMarkup(d) ==
    /\ parseCall = None
    /\ parseCall' = Some([decl |-> d, m |-> MarkupText,
                          input |-> Declaration(d) \o MarkupText,
                          res |-> parse(Declaration(d) \o MarkupText, BlankUrl)])
    /\ UNCHANGED <<markup, coreVars, pluginVars, ffVars>>

----------------------------------------------------------------------------
(* Element construction: Element::new(tag).with_text(..).with_child(..) *)

NewElement(tag, maxNodes) ==
    /\ document = None
    /\ NodeCountAll(stack) < maxNodes
    /\ stack' = Append(stack, ElementNew(tag))
    /\ UNCHANGED <<parserVars, stylesheet, document, renderVars, hostVars>>

WithText(text) ==
    /\ stack # <<>>
    /\ stack' = [stack EXCEPT ![Len(stack)] = with_text(@, text)]
    /\ UNCHANGED <<parserVars, stylesheet, document, renderVars, hostVars>>

\* the element on top becomes the last child of the one below it
WithChild ==
    /\ Len(stack) >= 2
    /\ stack' = [SubSeq(stack, 1, Len(stack) - 1) EXCEPT
                   ![Len(stack) - 1] = with_child(@, stack[Len(stack)])]
    /\ UNCHANGED <<parserVars, stylesheet, document, renderVars, hostVars>>

\* StyleSheet.rules.push(CssRule { selector, declarations })
AddRule(rule) ==
    /\ tree = None
    /\ Len(stylesheet.rules) < MaxRules
    /\ stylesheet' = [stylesheet EXCEPT !.rules = Append(@, rule)]
    /\ UNCHANGED <<parserVars, stack, document, renderVars, hostVars>>

\* the finished element becomes the root of a Document, as in parse
MakeDocument(u) ==
    /\ document = None
    /\ Len(stack) = 1
    /\ document' = Some(DocumentOf(stack[1], u))
    /\ stack' = <<>>
    /\ UNCHANGED <<parserVars, stylesheet, renderVars, hostVars>>

----------------------------------------------------------------------------
(* Render engine calls *)

BuildRenderTree ==
    /\ IsSome(document)
    /\ tree' = Some(build_render_tree(Unwrap(document), viewport_width).val)
    /\ opLog' = Logged([op |-> "build", width |-> viewport_width])
    /\ UNCHANGED <<parserVars, treeVars, viewport_width, viewport_height, hostVars>>

Layout ==
    /\ IsSome(tree)
    /\ tree' = Some(layout(Unwrap(tree), viewport_width))
    /\ opLog' = Logged([op |-> "layout", width |-> viewport_width])
    /\ UNCHANGED <<parserVars, treeVars, viewport_width, viewport_height, hostVars>>

Resize(width, height) ==
    /\ viewport_width' = width
    /\ viewport_height' = height
    /\ opLog' = Logged([op |-> "resize", width |-> width])
    /\ UNCHANGED <<parserVars, treeVars, tree, hostVars>>

----------------------------------------------------------------------------
(* BrowserPlugin calls *)

PluginDoes(op, arg, out) ==
    /\ tabs' = out.p.tabs
    /\ active_tab' = out.p.active_tab
    /\ next_tab_id' = out.p.next_tab_id
    /\ issued' = issued \cup {out.p.tabs[j].id : j \in 1..Len(out.p.tabs)}
    /\ pluginCall' = [op |-> op, arg |-> arg, before |-> Len(tabs),
                      ret |-> out.ret, writes |-> out.writes]
    /\ UNCHANGED <<coreVars, ffVars, markupVars>>

NewTab ==
    /\ next_tab_id <= MaxTabIds
    /\ PluginDoes("new_tab", <<>>, new_tab(Plugin))

CloseTab(tab_id) ==
    /\ tab_id \in Nat
    /\ PluginDoes("close_tab", tab_id, close_tab(Plugin, tab_id))

Navigate(u) ==
    /\ tabs # <<>> \/ next_tab_id <= MaxTabIds
    /\ PluginDoes("navigate", u, navigate(Plugin, u))

----------------------------------------------------------------------------
(* BrowserFlexForgeIntegration calls *)

FfDoes(op, arg, out) ==
    /\ config' = out.ff.config
    /\ metrics' = out.ff.metrics
    /\ ff_tabs' = out.ff.tabs
    /\ active_tab_id' = out.ff.active_tab_id
    /\ ff_next_tab_id' = out.ff.next_tab_id
    /\ stream_active' = out.ff.stream_active
    /\ stream_id' = out.ff.stream_id
    /\ next_stream_id' = out.ff.next_stream_id
    /\ devtools_open' = out.ff.devtools_open
    /\ ffCall' = [op |-> op, arg |-> arg, ret |-> out.ret,
                  before |-> [open_tabs |-> Cardinality(DOMAIN ff_tabs),
                              active_tab_id |-> active_tab_id]]
    /\ UNCHANGED <<coreVars, pluginVars, markupVars>>

CreateTab(u) ==
    /\ ff_next_tab_id <= MaxFfTabIds
    /\ FfDoes("create_tab", u, ff_create_tab(Integration, u))

FfCloseTab(tab_id) ==
    /\ tab_id \in Nat
    /\ \E out \in ff_close_tab(Integration, tab_id) : FfDoes("close_tab", tab_id, out)

FfNavigate(u) ==
    /\ u \in Urls
    /\ FfDoes("navigate", u, ff_navigate(Integration, u))

StartStream ==
    /\ next_stream_id <= MaxStreamIds
    /\ FfDoes("start_stream", <<>>, start_stream(Integration))

StopStream(id) ==
    /\ id \in Nat
    /\ FfDoes("stop_stream", id, stop_stream(Integration, id))

\* render_frame(stream_id, _delta_ms): the delta is not read
RenderFrame(id) ==
    /\ id \in Nat
    /\ FfDoes("render_frame", id, render_frame(Integration, id))

OnConfigChanged(key, value) ==
    /\ key \in STRING
    /\ FfDoes("on_config_changed", <<key, value>>, on_config_changed(Integration, key, value))

ApplyConfig(entries) ==
    /\ Len(entries) <= MaxApply
    /\ FfDoes("apply_config", entries, apply_config(Integration, entries))

ResetToDefaults ==
    \E out \in {reset_to_defaults(Integration)} : FfDoes("reset_to_defaults", <<>>, out)

OnPanelActivate ==
    /\ stream_active \/ next_stream_id <= MaxStreamIds
    /\ FfDoes("on_panel_activate", <<>>, on_panel_activate(Integration))

OnPanelDeactivate ==
    \E out \in {on_panel_deactivate(Integration)} : FfDoes("on_panel_deactivate", <<>>, out)

----------------------------------------------------------------------------
(* Specifications *)

Rules ==
    {[selector |-> S_p, declarations |-> <<<<"color", "black">>>>],
     [selector |-> S_p, declarations |-> <<<<"color", "red">>>>],
     [selector |-> S_div, declarations |-> <<<<"color", "red">>>>]}

NextParser ==
    \/ \E f \in Frags : AppendPiece(f)
    \/ \E k \in PrefixKinds, u \in Urls : DoParse(k, u)

SpecParser == Init /\ [][NextParser]_vars

NextTitle ==
    \/ \E tag \in TitleTags : NewElement(tag, MaxTitleNodes)
    \/ \E text \in TitleTexts : WithText(text)
    \/ WithChild
    \/ \E u \in Urls : MakeDocument(u)

SpecTitle == Init /\ [][NextTitle]_vars

NextStyle ==
    \/ \E tag \in RenderTags : NewElement(tag, MaxNodes)
    \/ WithChild
    \/ \E rule \in Rules : AddRule(rule)
    \/ MakeDocument(BlankUrl)
    \/ BuildRenderTree

SpecStyle == Init /\ [][NextStyle]_vars

NextRender ==
    \/ \E tag \in RenderTags : NewElement(tag, MaxNodes)
    \/ WithChild
    \/ MakeDocument(BlankUrl)
    \/ BuildRenderTree
    \/ Layout
    \/ \E v \in Viewports : Resize(v[1], v[2])

SpecRender == Init /\ [][NextRender]_vars

NextPlugin ==
    \/ NewTab
    \/ \E tab_id \in 1..(MaxTabIds + 1) : CloseTab(tab_id)
    \/ \E u \in Urls : Navigate(u)

SpecPlugin == Init /\ [][NextPlugin]_vars

ExampleUrl == "https://example.com"

NextTabs ==
    \/ \E u \in {None, Some(ExampleUrl)} : CreateTab(u)
    \/ \E tab_id \in 1..(MaxFfTabIds + 1) : FfCloseTab(tab_id)
    \/ \E u \in Urls : FfNavigate(u)

SpecTabs == Init /\ [][NextTabs]_vars

NextStream ==
    \/ StartStream
    \/ \E id \in 1..(MaxStreamIds + 1) : StopStream(id)
    \/ \E id \in 1..(MaxStreamIds + 1) : RenderFrame(id)

SpecStream == Init /\ [][NextStream]_vars

S_x == <<"x">>
S_24 == <<"2", "4">>
S_25 == <<"2", "5">>
S_150 == <<"1", "5", "0">>
S_500 == <<"5", "0", "0">>
S_501 == <<"5", "0", "1">>
S_plus25 == <<"+", "2", "5">>

ConfigKeys == {"default_zoom", "max_tabs", "dark_mode", "bogus"}
ConfigValues == {S_x, S_true, S_24, S_25, S_plus25, S_150, S_500, S_501}
ApplyEntries ==
    {<<"default_zoom", S_150>>, <<"default_zoom", S_501>>,
     <<"max_tabs", S_24>>, <<"bogus", S_x>>}

RECURSIVE SeqsUpTo(_, _)
\* the sequences over S of length at most n
SeqsUpTo(S, n) ==
    IF n = 0 THEN {<<>>}
    ELSE LET shorter == SeqsUpTo(S, n - 1) IN
         shorter \cup {Append(q, x) : q \in shorter, x \in S}

NextConfig ==
    \/ \E key \in ConfigKeys, value \in ConfigValues : OnConfigChanged(key, value)
    \/ \E entries \in SeqsUpTo(ApplyEntries, MaxApply) : ApplyConfig(entries)
    \/ ResetToDefaults

SpecConfig == Init /\ [][NextConfig]_vars

NextPanel ==
    \/ NextStream
    \/ OnPanelActivate
    \/ OnPanelDeactivate

SpecPanel == Init /\ [][NextPanel]_vars

S_1 == <<"1">>
S_2 == <<"2">>
TabLimits == {S_1, S_2}

NextTabLimit ==
    \/ \E u \in {None, Some(ExampleUrl)} : CreateTab(u)
    \/ \E tab_id \in 1..(MaxFfTabIds + 1) : FfCloseTab(tab_id)
    \/ \E value \in TabLimits : OnConfigChanged("max_tabs", value)

SpecTabLimit == Init /\ [][NextTabLimit]_vars

NextMarkup ==
    \/ \E f \in MarkupFrags : TypeMarkup(f)
    \/ \E d \in Casings : ParseMarkup(d)

SpecMarkup == Init /\ [][NextMarkup]_vars

Next ==
    \/ NextParser \/ NextTitle \/ NextStyle \/ NextRender
    \/ NextPlugin \/ NextTabs \/ NextStream \/ NextConfig \/ NextMarkup
    \/ NextPanel \/ NextTabLimit

Spec == Init /\ [][Next]_vars

----------------------------------------------------------------------------
(* Vocabulary of the properties *)

Result(k) == Unwrap(results[k])

RECURSIVE PreOrder(_)
RECURSIVE PreOrderAll(_)
\* the nodes of an Element or RenderNode tree, depth first, parent before children
PreOrderAll(ns) == IF ns = <<>> THEN <<>> ELSE PreOrder(Head(ns)) \o PreOrderAll(Tail(ns))
PreOrder(n) == <<n>> \o PreOrderAll(n.children)

Tags(es) == [i \in 1..Len(es) |-> es[i].tag]

Root == Unwrap(document).root
RenderRoot == Unwrap(tree).root
RenderNodes == PreOrder(RenderRoot)

LastOp == IF opLog = <<>> THEN "none" ELSE opLog[Len(opLog)].op

\* the render tree is in the state a layout call left it in
JustLaidOut == IsSome(tree) /\ LastOp = "layout"

----------------------------------------------------------------------------
(* C1: parse fails exactly on the empty string *)

\* C1: every parse call made so far returned Err if and only if its html
\* argument was the empty string; every non-empty argument, whitespace-only or
\* malformed ones included, returned Ok(Document).
C1_ParseFailsIffEmpty ==
    \A k \in PrefixKinds :
        IsSome(results[k]) => (~Result(k).res.ok <=> Result(k).input = EmptyStr)

\* parse("") has failed with "Empty HTML" and parse of a non-empty text has
\* returned a Document carrying the url
C1_Witness ==
    /\ Html = EmptyStr
    /\ IsSome(results["none"])
    /\ Result("none").input = EmptyStr
    /\ Result("none").res = Err("Parse", "Empty HTML")
    /\ IsSome(results["upper"])
    /\ Result("upper").res.ok
    /\ Result("upper").res.val.url = Result("upper").url

----------------------------------------------------------------------------
(* C9: doctype skipping is transparent *)

\* C9: for non-empty markup m, parse("<!DOCTYPE html>" + m) and
\* parse("<!doctype html>" + m) succeed with the same root tag name as parse(m).
C9_DoctypeTransparent ==
    \A k \in {"upper", "lower"} :
        (Html # EmptyStr /\ IsSome(results["none"]) /\ IsSome(results[k]))
            => /\ Result("none").res.ok
               /\ Result(k).res.ok
               /\ Result(k).res.val.root.tag = Result("none").res.val.root.tag

\* m = "<html></html>" parsed bare and behind both prefixes: root tag "html"
C9_Witness ==
    /\ Html = <<"<">> \o S_html \o <<">">> \o S_close_html
    /\ \A k \in PrefixKinds :
          IsSome(results[k]) /\ Result(k).res.ok /\ Result(k).res.val.root.tag = S_html

----------------------------------------------------------------------------
(* C2, C10: extract_title *)

HasTitle(root) == \E i \in 1..Len(PreOrder(root)) : PreOrder(root)[i].tag = S_title

FirstTitle(root) ==
    LET ns == PreOrder(root)
        i == CHOOSE j \in 1..Len(ns) : ns[j].tag = S_title /\ \A l \in 1..(j - 1) : ns[l].tag # S_title
    IN ns[i]

\* C2: when the tree contains an element tagged "title", the extracted title
\* is the text content of the first such element in depth-first pre-order
\* (the empty string if it has none), at any depth and after any siblings.
C2_TitleOfFirstTitleElement ==
    (IsSome(document) /\ HasTitle(Root))
        => Unwrap(document).title = UnwrapOr(FirstTitle(Root).text_content, EmptyStr)

\* C10: when no element of the tree is tagged "title", the extracted title is
\* the literal "Untitled".
C10_UntitledWithoutTitle ==
    (IsSome(document) /\ ~HasTitle(Root)) => Unwrap(document).title = S_Untitled

\* a three-node tree with text but no title element: "Untitled"
C10_Witness ==
    /\ IsSome(document)
    /\ ~HasTitle(Root)
    /\ Len(PreOrder(Root)) = 3
    /\ Len(Root.children) = 1
    /\ Root.children[1].children[1].text_content = Some(S_Hello)
    /\ Unwrap(document).title = S_Untitled

----------------------------------------------------------------------------
(* C3, C4, C5, C6: layout *)

\* C3: after layout, a node with children has
\* height = last_child.y + last_child.height - node.y.
C3_HeightIsChildrenExtent ==
    JustLaidOut =>
        \A i \in 1..Len(RenderNodes) :
            LET n == RenderNodes[i]
                last == n.children[Len(n.children)]
            IN n.children # <<>>
                 => n.layout.height = last.layout.y + last.layout.height - n.layout.y

\* C4: after layout, a first child has its parent's y and every later child
\* has y = previous sibling's y + previous sibling's height + 8.
C4_BlockStacking ==
    JustLaidOut =>
        \A i \in 1..Len(RenderNodes) :
            LET n == RenderNodes[i] IN
            \A c \in 1..Len(n.children) :
                n.children[c].layout.y =
                    IF c = 1 THEN n.layout.y
                    ELSE n.children[c - 1].layout.y + n.children[c - 1].layout.height + 8

\* a root with three childless children laid out at y = 0, 8, 16
C4_Witness ==
    /\ JustLaidOut
    /\ Len(RenderRoot.children) = 3
    /\ \A c \in 1..3 : RenderRoot.children[c].children = <<>>
    /\ RenderRoot.layout.y = 0
    /\ RenderRoot.children[1].layout.y = 0
    /\ RenderRoot.children[2].layout.y = 8
    /\ RenderRoot.children[3].layout.y = 16

\* C5: a layout call that directly follows a layout call on the same tree,
\* the viewport not resized in between, leaves every LayoutBox unchanged.
C5_LayoutIdempotent ==
    [][(JustLaidOut /\ JustLaidOut') => tree' = tree]_vars

\* layout ran twice in a row on a tree with nested children whose boxes
\* held the builder's values (y = 20 for a second child) before the first run
C5_Witness ==
    /\ JustLaidOut
    /\ Len(opLog) = 3
    /\ opLog[1].op = "build" /\ opLog[2].op = "layout"
    /\ Len(RenderRoot.children) = 2
    /\ RenderRoot.children[1].children # <<>>
    /\ RenderRoot.children[2].layout.y = 16

\* C6: after layout at viewport width W every node has x = 0 and width = W.
C6_FullWidthAfterLayout ==
    JustLaidOut =>
        \A i \in 1..Len(RenderNodes) :
            /\ RenderNodes[i].layout.x = 0
            /\ RenderNodes[i].layout.width = viewport_width

\* layout at width 800, resize to 400, layout again: every width is 400
C6_Witness ==
    /\ JustLaidOut
    /\ opLog = <<[op |-> "layout", width |-> 800],
                 [op |-> "resize", width |-> 400],
                 [op |-> "layout", width |-> 400]>>
    /\ Len(RenderNodes) >= 3
    /\ \A i \in 1..Len(RenderNodes) : RenderNodes[i].layout.width = 400

----------------------------------------------------------------------------
(* C7: the render tree mirrors the element tree *)

RECURSIVE Mirrors(_, _)
\* render node n carries element e and its children mirror e's, in order
Mirrors(n, e) ==
    /\ n.element = e
    /\ Len(n.children) = Len(e.children)
    /\ \A i \in 1..Len(n.children) : Mirrors(n.children[i], e.children[i])

\* C7: the render tree has as many nodes as the document's element tree, the
\* same pre-order sequence of tags, and the same children in the same order
\* at every node.
C7_RenderTreeIsomorphic ==
    IsSome(tree) =>
        /\ Len(RenderNodes) = Len(PreOrder(Root))
        /\ [i \in 1..Len(RenderNodes) |-> RenderNodes[i].element.tag] = Tags(PreOrder(Root))
        /\ Mirrors(RenderRoot, Root)

\* a render tree built from a four-node element tree of depth three with
\* two different tags
C7_Witness ==
    /\ IsSome(tree)
    /\ LastOp = "build"
    /\ Len(RenderNodes) = 4
    /\ Len(RenderRoot.children) = 2
    /\ Len(RenderRoot.children[1].children) = 1
    /\ RenderRoot.element.tag = S_div
    /\ RenderRoot.children[2].element.tag = S_p

----------------------------------------------------------------------------
(* C8: style cascade *)

ColorOf(value) ==
    CASE value = "red" -> [r |-> 255, g |-> 0, b |-> 0, a |-> 255]
      [] value = "black" -> [r |-> 0, g |-> 0, b |-> 0, a |-> 255]

RECURSIVE FoldDeclarations(_, _)
FoldDeclarations(style, decls) ==
    IF decls = <<>> THEN style
    ELSE FoldDeclarations(
            IF Head(decls)[1] = "color"
            THEN [style EXCEPT !.color = ColorOf(Head(decls)[2])]
            ELSE style,
            Tail(decls))

RECURSIVE Cascade(_, _, _)
\* the fold, in rule order, of the declarations of the rules that select tag
Cascade(style, rules, tag) ==
    IF rules = <<>> THEN style
    ELSE Cascade(
            IF Head(rules).selector = tag
            THEN FoldDeclarations(style, Head(rules).declarations)
            ELSE style,
            Tail(rules), tag)

\* C8: every render node's computed style is the cascade of the stylesheet's
\* rules that select its tag, a later rule overriding an earlier one.
C8_StyleCascade ==
    IsSome(tree) =>
        \A i \in 1..Len(RenderNodes) :
            RenderNodes[i].computed_style =
                Cascade(ComputedStyleDefault, stylesheet.rules, RenderNodes[i].element.tag)

----------------------------------------------------------------------------
(* C11, C12, C13, C19: BrowserPlugin *)

ActiveTab == tabs[active_tab + 1]

TabIds == {tabs[i].id : i \in 1..Len(tabs)}

\* C11: navigate(url) returns Ok; afterwards the active tab exists, has
\* url = url, is Loaded and stores a Document whose url is url.
C11_NavigateLoadsActiveTab ==
    pluginCall.op = "navigate" =>
        /\ pluginCall.ret = Ok(<<>>)
        /\ active_tab + 1 \in 1..Len(tabs)
        /\ ActiveTab.url = pluginCall.arg
        /\ ActiveTab.navigation_state = "Loaded"
        /\ IsSome(ActiveTab.document)
        /\ Unwrap(ActiveTab.document).url = pluginCall.arg

\* navigate was called with no tab open: it opened tab 1 and loaded the url
C11_Witness ==
    /\ pluginCall.op = "navigate"
    /\ pluginCall.before = 0
    /\ pluginCall.arg = "https://example.com"
    /\ Len(tabs) = 1
    /\ ActiveTab.id = 1
    /\ ActiveTab.navigation_state = "Loaded"
    /\ Unwrap(ActiveTab.document).root.tag = S_html

ForwardTransitions ==
    {<<"Idle", "Loading">>, <<"Loading", "Loaded">>, <<"Loading", "Error">>}

Renavigation == {<<"Loaded", "Loading">>}

WritesTo(call, id) == SelectSeq(call.writes, LAMBDA w : w.id = id)

\* every tab open before and after the step changed its navigation_state
\* exactly as the assignments of the call say, each one a transition of allowed
StateChangesWithin(allowed) ==
    \A i \in 1..Len(tabs), j \in 1..Len(tabs') :
        tabs[i].id = tabs'[j].id =>
            LET ws == WritesTo(pluginCall', tabs[i].id) IN
            IF ws = <<>>
            THEN tabs'[j].navigation_state = tabs[i].navigation_state
            ELSE /\ ws[1].from = tabs[i].navigation_state
                 /\ ws[Len(ws)].to = tabs'[j].navigation_state
                 /\ \A k \in 1..Len(ws) : <<ws[k].from, ws[k].to>> \in allowed
                 /\ \A k \in 1..(Len(ws) - 1) : ws[k].to = ws[k + 1].from

\* C13 as stated: a tab's navigation_state changes only along Idle to
\* Loading, Loading to Loaded or Loading to Error.
C13_OnlyForwardTransitions ==
    [][StateChangesWithin(ForwardTransitions)]_vars

\* C13 as amended: a tab's navigation_state changes only along Idle to
\* Loading, Loaded to Loading (a further navigate), Loading to Loaded or
\* Loading to Error; no state ever goes back to Idle.
C13_TransitionsWithRenavigation ==
    [][StateChangesWithin(ForwardTransitions \cup Renavigation)]_vars

\* a Loaded tab has been navigated again: Loaded to Loading to Loaded
C13_Witness ==
    /\ pluginCall.op = "navigate"
    /\ pluginCall.before = 2
    /\ pluginCall.writes = <<[id |-> 2, from |-> "Loaded", to |-> "Loading"],
                             [id |-> 2, from |-> "Loading", to |-> "Loaded"]>>
    /\ tabs[1].navigation_state = "Idle"
    /\ tabs[2].navigation_state = "Loaded"

\* a step in which new_tab itself was called
NewTabStep == pluginCall'.op = "new_tab" /\ next_tab_id' # next_tab_id

\* C19: new_tab returns 1 on a fresh plugin and an id greater than every id
\* issued before on each later call, appends exactly one tab (Idle, no
\* document, url "about:blank") and makes it the active tab; open tabs always
\* have distinct ids.
C19_NewTabIssuesFreshIds ==
    /\ [](\A i, j \in 1..Len(tabs) : tabs[i].id = tabs[j].id => i = j)
    /\ [][NewTabStep =>
            /\ issued = {} => pluginCall'.ret = 1
            /\ \A id \in issued : pluginCall'.ret > id
            /\ tabs' = Append(tabs, [id |-> pluginCall'.ret, url |-> "about:blank",
                                     title |-> "New Tab", navigation_state |-> "Idle",
                                     document |-> <<>>])
            /\ active_tab' = Len(tabs') - 1]_vars

\* new_tab after a close_tab: tab 2 was closed, the new tab is 3, not 2
C19_Witness ==
    /\ pluginCall.op = "new_tab"
    /\ pluginCall.ret = 3
    /\ issued = {1, 2, 3}
    /\ Len(tabs) = 2
    /\ tabs[1].id = 1
    /\ tabs[2].id = 3
    /\ active_tab = 1

----------------------------------------------------------------------------
(* C14: the default ComputedStyle *)

\* C14: every render node built by build_render_tree has display Block, no
\* width or height, a transparent background (alpha 0) and an opaque black
\* text colour (r = g = b = 0, alpha = 255).
C14_DefaultStyleOpaqueBlackText ==
    IsSome(tree) =>
        \A i \in 1..Len(RenderNodes) :
            LET style == RenderNodes[i].computed_style IN
            /\ style.display = "Block"
            /\ style.width = None
            /\ style.height = None
            /\ style.background_color.a = 0
            /\ style.color = [r |-> 0, g |-> 0, b |-> 0, a |-> 255]


----------------------------------------------------------------------------
(* BrowserFlexForgeIntegration: tabs *)

OpenTabs == DOMAIN ff_tabs
ClosedLast == ffCall'.op = "close_tab" /\ Cardinality(OpenTabs) = 1

\* C15: the tab map of BrowserFlexForgeIntegration is never empty, and a
\* close_tab called while exactly one tab is open returns Err and leaves the
\* tab map and the active tab as they were.
C15_AlwaysOneTab ==
    /\ [](OpenTabs # {})
    /\ [][ClosedLast => /\ ~ffCall'.ret.ok
                        /\ ff_tabs' = ff_tabs
                        /\ active_tab_id' = active_tab_id]_vars

\* the only open tab is tab 2 (tab 1 was closed) and closing it was refused
C15_Witness ==
    /\ ffCall.op = "close_tab"
    /\ ffCall.arg = 2
    /\ ffCall.ret = Err("String", "Cannot close last tab")
    /\ ffCall.before.open_tabs = 1
    /\ OpenTabs = {2}
    /\ active_tab_id = Some(2)

ActiveTabOpen == IsSome(active_tab_id) /\ Unwrap(active_tab_id) \in OpenTabs
CreatedTab == ffCall'.op = "create_tab"
ClosedActiveTab ==
    /\ ffCall'.op = "close_tab"
    /\ ffCall'.ret.ok
    /\ active_tab_id = Some(ffCall'.arg)

\* C16: active_tab_id is always Some(id) of an open tab: tab 1 initially, the
\* newly created tab after create_tab, and after a successful close_tab of the
\* active tab a different tab that is still open.
C16_ActiveTabIsOpen ==
    /\ active_tab_id = Some(1)
    /\ []ActiveTabOpen
    /\ [][/\ CreatedTab => /\ ffCall'.ret \notin OpenTabs
                           /\ ffCall'.ret \in DOMAIN ff_tabs'
                           /\ active_tab_id' = Some(ffCall'.ret)
          /\ ClosedActiveTab => /\ active_tab_id' # active_tab_id
                                /\ IsSome(active_tab_id')
                                /\ Unwrap(active_tab_id') \in DOMAIN ff_tabs']_vars

\* the active tab 3 was closed while tabs 1 and 2 were open too, and tab 1
\* became the active one
C16_Witness ==
    /\ ffCall.op = "close_tab"
    /\ ffCall.ret.ok
    /\ ffCall.arg = 3
    /\ ffCall.before.active_tab_id = Some(3)
    /\ OpenTabs = {1, 2}
    /\ active_tab_id = Some(1)

Navigated == ffCall'.op = "navigate"

\* C20: navigate(url) returns Ok and sets the active tab's url to url with
\* loading and can_go_back true; every other tab, the set of open tabs and the
\* active-tab selection stay as they were.
C20_NavigateTouchesActiveTabOnly ==
    [][Navigated =>
        LET a == Unwrap(active_tab_id) IN
        /\ ffCall'.ret = Ok(<<>>)
        /\ active_tab_id' = active_tab_id
        /\ DOMAIN ff_tabs' = OpenTabs
        /\ ff_tabs'[a] = [ff_tabs[a] EXCEPT !.url = ffCall'.arg,
                                            !.loading = TRUE,
                                            !.can_go_back = TRUE]
        /\ \A k \in OpenTabs \ {a} : ff_tabs'[k] = ff_tabs[k]]_vars

\* tab 1 was navigated while tab 2 was open: tab 1 carries the url, tab 2 is
\* as create_tab(None) left it
C20_Witness ==
    /\ ffCall.op = "navigate"
    /\ ffCall.arg = ExampleUrl
    /\ ffCall.ret = Ok(<<>>)
    /\ OpenTabs = {1, 2}
    /\ active_tab_id = Some(1)
    /\ ff_tabs[1].url = ExampleUrl /\ ff_tabs[1].loading /\ ff_tabs[1].can_go_back
    /\ ff_tabs[2] = [FfBrowserTabDefault EXCEPT !.id = 2]

----------------------------------------------------------------------------
(* BrowserFlexForgeIntegration: streaming *)

StartedIdle == ffCall'.op = "start_stream" /\ ~is_streaming(Integration)
RenderedActive ==
    /\ ffCall'.op = "render_frame"
    /\ is_streaming(Integration)
    /\ stream_id = Some(ffCall'.arg)
StoppedActive ==
    /\ ffCall'.op = "stop_stream"
    /\ is_streaming(Integration)
    /\ stream_id = Some(ffCall'.arg)

\* C17: with no stream active, start_stream returns Ok(id) and is_streaming
\* becomes true; while that stream is active render_frame(id, _) returns true;
\* stop_stream(id) returns Ok and is_streaming becomes false.
C17_StreamLifecycle ==
    [][/\ StartedIdle => /\ ffCall'.ret.ok
                         /\ stream_id' = Some(ffCall'.ret.val)
                         /\ stream_active'
       /\ RenderedActive => /\ ffCall'.ret = TRUE
                            /\ stream_active'
                            /\ stream_id' = stream_id
       /\ StoppedActive => /\ ffCall'.ret.ok
                           /\ ~stream_active']_vars

\* stream 1 was started, a frame of it was rendered, and it was stopped
C17_Witness ==
    /\ ffCall.op = "stop_stream"
    /\ ffCall.arg = 1
    /\ ffCall.ret.ok
    /\ ~stream_active
    /\ next_stream_id = 2
    /\ metrics.render_fps = RenderFps

----------------------------------------------------------------------------
(* BrowserFlexForgeIntegration: configuration *)

\* the number a drawn value text denotes, -1 for a text that is not a number
Denotes(value) ==
    CASE value = S_24 -> 24
      [] value = S_25 -> 25
      [] value = S_plus25 -> 25
      [] value = S_150 -> 150
      [] value = S_500 -> 500
      [] value = S_501 -> 501
      [] OTHER -> -1

ChangedZoom == ffCall'.op = "on_config_changed" /\ ffCall'.arg[1] = "default_zoom"

\* C18: the stored default_zoom is always within 25..=500;
\* on_config_changed("default_zoom", v) with v non-numeric or outside the range
\* returns Err and leaves the whole configuration unchanged, and with v inside
\* the range stores exactly v.
C18_ZoomWithinRange ==
    /\ [](config.default_zoom \in 25..500)
    /\ [][ChangedZoom =>
            LET v == Denotes(ffCall'.arg[2]) IN
            IF v \in 25..500
            THEN ffCall'.ret.ok /\ config'.default_zoom = v
            ELSE ~ffCall'.ret.ok /\ config' = config]_vars

\* zoom 501 was refused while zoom 150 and max_tabs 24 were stored
C18_Witness ==
    /\ ffCall.op = "on_config_changed"
    /\ ffCall.arg = <<"default_zoom", S_501>>
    /\ ffCall.ret = Err("String", "Zoom must be between 25% and 500%")
    /\ config.default_zoom = 150
    /\ config.max_tabs = 24

----------------------------------------------------------------------------
(* HtmlParser on typed markup: doctype casings, fallback root, tag name *)

Parsed == Unwrap(parseCall)

\* C21: a leading doctype declaration is recognised in every letter casing of
\* the keyword: parse(declaration + m) yields the root tag name of parse(m).
C21_DoctypeAnyCasing ==
    (IsSome(parseCall) /\ Parsed.decl # "none" /\ Parsed.m # EmptyStr)
        => /\ Parsed.res.ok
           /\ Parsed.res.val.root.tag = parse(Parsed.m, BlankUrl).val.root.tag

Positions(t, c) == {i \in 1..Len(t) : t[i] = c}
Least(S) == CHOOSE x \in S : \A y \in S : x <= y
FirstOpen(t) == Least(Positions(t, "<"))
ClosesAfterOpen(t) == {j \in Positions(t, ">") : j > FirstOpen(t)}

\* the text holds a '<' followed later by a '>'
HasTag(t) == Positions(t, "<") # {} /\ ClosesAfterOpen(t) # {}

\* the text strictly between the first '<' and the first '>' after it
Between(t) == SubSeq(t, FirstOpen(t) + 1, Least(ClosesAfterOpen(t)) - 1)

\* the first whitespace-delimited token of a text, "div" when it has none
FirstToken(b) ==
    LET inked == {i \in 1..Len(b) : b[i] \notin WhiteSpace} IN
    IF inked = {} THEN S_div
    ELSE LET from == Least(inked)
             to == Least({e \in from..Len(b) : e = Len(b) \/ b[e + 1] \in WhiteSpace})
         IN SubSeq(b, from, to)

RECURSIVE AfterDoctype(_)
\* the trimmed text left once the leading "<!DOCTYPE ..>" / "<!doctype ..>"
\* declarations are skipped
AfterDoctype(t) ==
    LET h == Trim(t) IN
    IF (StartsWith(h, S_DOCTYPE) \/ StartsWith(h, S_doctype)) /\ Positions(h, ">") # {}
    THEN AfterDoctype(SubSeq(h, Least(Positions(h, ">")) + 1, Len(h)))
    ELSE h

EmptyDiv == [tag |-> S_div, attributes |-> <<>>, children |-> <<>>, text_content |-> None]

\* C22: for non-empty input that holds no '<', or no '>' after its first '<'
\* (a doctype keyword with no closing '>' included), parse succeeds with a
\* root "div" that has no attributes, children or text.
C22_FallbackDiv ==
    (IsSome(parseCall) /\ Parsed.input # EmptyStr /\ ~HasTag(Trim(Parsed.input)))
        => Parsed.res.ok /\ Parsed.res.val.root = EmptyDiv

\* "<!DOCTYPE p" has no '>' and parsed to the fallback "div"
C22_Witness ==
    /\ markup = <<S_DOCTYPE, <<" ">>, S_p>>
    /\ IsSome(parseCall)
    /\ Parsed.decl = "none"
    /\ Parsed.res.ok
    /\ Parsed.res.val.root = EmptyDiv

\* C23: when the trimmed input, after doctype skipping, holds a '<' followed
\* later by a '>', the root tag name is the first whitespace-delimited token of
\* the text strictly between the first '<' and the first '>' after it, and
\* "div" when that text is empty or all whitespace.
C23_TagNameIsFirstToken ==
    (IsSome(parseCall) /\ Parsed.input # EmptyStr /\ HasTag(AfterDoctype(Parsed.input)))
        => /\ Parsed.res.ok
           /\ Parsed.res.val.root.tag = FirstToken(Between(AfterDoctype(Parsed.input)))

\* "<!DOCTYPE html>< p>" parsed to a root tagged "p"
C23_Witness ==
    /\ markup = <<<<"<">>, <<" ">>, S_p, <<">">>>>
    /\ IsSome(parseCall)
    /\ Parsed.decl = "DOCTYPE"
    /\ Parsed.res.ok
    /\ Parsed.res.val.root.tag = S_p

\* C24: every Document parse returns has a single-node tree: the root has no
\* children, no attributes and no text, whatever the markup nests or carries.
C24_SingleNodeTree ==
    (IsSome(parseCall) /\ Parsed.res.ok)
        => /\ Parsed.res.val.root.children = <<>>
           /\ Parsed.res.val.root.attributes = <<>>
           /\ Parsed.res.val.root.text_content = None

\* "<p><p a=b>Hi</p>" nests a tag with an attribute and text; its Document is
\* the bare root "p"
C24_Witness ==
    /\ markup = <<S_open_p, S_open_p_attr, S_Hi, S_close_p>>
    /\ IsSome(parseCall)
    /\ Parsed.decl = "none"
    /\ Parsed.res.ok
    /\ Parsed.res.val.root = ElementNew(S_p)
    /\ Parsed.res.val.title = S_Untitled

----------------------------------------------------------------------------
(* RenderEngine::build_render_tree: the LayoutBox values before layout *)

JustBuilt == IsSome(tree) /\ LastOp = "build"
ZeroBox == [x |-> 0, y |-> 0, width |-> 0, height |-> 0]

\* C25: every RenderNode build_render_tree produced, before layout has run on
\* the tree, has the zeroed LayoutBox x = 0, y = 0, width = 0, height = 0.
C25_ZeroedBeforeLayout ==
    JustBuilt => \A i \in 1..Len(RenderNodes) : RenderNodes[i].layout = ZeroBox

----------------------------------------------------------------------------
(* BrowserPlugin: close_tab, the active index, navigation_state and document *)

ClosedTab == pluginCall'.op = "close_tab"
Without(v, id) == SelectSeq(v, LAMBDA t : t.id # id)

\* C26: close_tab(id) returns true and removes exactly the tab with that id,
\* keeping the other tabs and their order, when such a tab is open; otherwise
\* it returns false and leaves the tab list and the active tab unchanged.
C26_CloseTabRemovesExactlyOne ==
    [][ClosedTab =>
        IF pluginCall'.arg \in TabIds
        THEN /\ pluginCall'.ret = TRUE
             /\ tabs' = Without(tabs, pluginCall'.arg)
             /\ Len(tabs') = Len(tabs) - 1
        ELSE /\ pluginCall'.ret = FALSE
             /\ tabs' = tabs
             /\ active_tab' = active_tab]_vars

\* tab 1 was closed with tabs 1, 2, 3 open: tabs 2 and 3 remain, in that order
C26_Witness ==
    /\ pluginCall.op = "close_tab"
    /\ pluginCall.arg = 1
    /\ pluginCall.ret = TRUE
    /\ pluginCall.before = 3
    /\ Len(tabs) = 2
    /\ tabs[1].id = 2
    /\ tabs[2].id = 3

\* C29: with at least one tab open, active_tab is a valid index into the tab
\* list, the index of the last tab; active_tab() returns Some exactly when a
\* tab is open, and navigate never indexes the tab list out of bounds.
C29_ActiveIndexValid ==
    /\ tabs # <<>> => active_tab = Len(tabs) - 1
    /\ IsSome(active_tab_get(Plugin)) <=> tabs # <<>>
    /\ pluginCall.op = "navigate" => pluginCall.ret.ok

\* tabs 1, 2, 3 were opened, tabs 2 and 3 were closed, and the remaining tab,
\* at index 0, was navigated
C29_Witness ==
    /\ issued = {1, 2, 3}
    /\ Len(tabs) = 1
    /\ tabs[1].id = 1
    /\ active_tab = 0
    /\ pluginCall.op = "navigate"
    /\ pluginCall.ret.ok
    /\ tabs[1].url = ExampleUrl

LoadedIffDocument ==
    \A i \in 1..Len(tabs) : tabs[i].navigation_state = "Loaded" <=> IsSome(tabs[i].document)

TabOf(v, id) == v[CHOOSE i \in 1..Len(v) : v[i].id = id]
NavigatedIds(call) == {call.writes[j].id : j \in 1..Len(call.writes)}

\* a tab no navigate of this step wrote: new ones are Idle without a Document,
\* the others keep their navigation_state and document
UnnavigatedKept ==
    \A i \in 1..Len(tabs') :
        tabs'[i].id \notin NavigatedIds(pluginCall')
            => IF tabs'[i].id \in TabIds
               THEN /\ tabs'[i].navigation_state = TabOf(tabs, tabs'[i].id).navigation_state
                    /\ tabs'[i].document = TabOf(tabs, tabs'[i].id).document
               ELSE /\ tabs'[i].navigation_state = "Idle"
                    /\ tabs'[i].document = None

\* C30: between operations, every tab is Loaded if and only if it holds a
\* Document, and a tab that was never navigated is Idle with no Document.
C30_LoadedIffDocument ==
    /\ []LoadedIffDocument
    /\ [][UnnavigatedKept /\ (pluginCall'.op # "navigate" => pluginCall'.writes = <<>>)]_vars

\* tab 1 was navigated and holds its Document, tab 2 was opened and never
\* navigated
C30_Witness ==
    /\ Len(tabs) = 2
    /\ tabs[1].id = 1
    /\ tabs[1].navigation_state = "Loaded"
    /\ IsSome(tabs[1].document)
    /\ Unwrap(tabs[1].document).url = ExampleUrl
    /\ tabs[2].id = 2
    /\ tabs[2].navigation_state = "Idle"
    /\ tabs[2].document = None

----------------------------------------------------------------------------
(* BrowserFlexForgeIntegration: max_tabs, panel visibility *)

WithinMaxTabs == Cardinality(OpenTabs) <= config.max_tabs
CreatedAtLimit == ffCall'.op = "create_tab" /\ Cardinality(OpenTabs) >= config.max_tabs

\* C27: the number of open tabs never exceeds the current max_tabs, and
\* create_tab adds no tab once max_tabs tabs are open.
C27_MaxTabsIsEnforced ==
    /\ []WithinMaxTabs
    /\ [][CreatedAtLimit => ff_tabs' = ff_tabs]_vars

PanelActivated == ffCall'.op = "on_panel_activate"
PanelDeactivated == ffCall'.op = "on_panel_deactivate"

\* C28: after on_panel_activate a stream is active: one is started if none
\* was, a running one is kept with its id; after on_panel_deactivate no stream
\* is active.
C28_PanelDrivesStreaming ==
    [][/\ PanelActivated =>
            /\ stream_active'
            /\ IF stream_active
               THEN stream_id' = stream_id /\ next_stream_id' = next_stream_id
               ELSE stream_id' = Some(next_stream_id) /\ next_stream_id' = next_stream_id + 1
       /\ PanelDeactivated => ~stream_active' /\ stream_id' = None]_vars

\* stream 1 was started and stopped before, and activating the panel started
\* stream 2
C28_Witness ==
    /\ ffCall.op = "on_panel_activate"
    /\ stream_active
    /\ stream_id = Some(2)
    /\ next_stream_id = 3

====
